---- MODULE Spec2Model ----
\* check.py of webfont-subset-glyph: the glyph-file duplicate scan and the
\* character search, with their two shared routines find_all_occurrences and
\* make_snippet.
\*
\* A Python str is a sequence of one-character tokens ("a", "b", "\n"); the
\* literal pieces of a printed line ("[SCAN]", " Column ", ...) are tokens of
\* their own. One line of standard output is one sequence of tokens; stdout and
\* stderr are sequences of lines.
EXTENDS Integers, Sequences, FiniteSets, TLC

VARIABLES
    cmd,        \* sys.argv: the subcommand, "none" | "scan" | "search"
    query,      \* sys.argv: the positional arguments after it
    fileExists, \* whether glyphs.txt exists beside check.py
    fileText,   \* the decoded text of glyphs.txt
    isatty,     \* sys.stdout.isatty() at import
    pc,         \* "start" | "exit" for a run of main(); "lib" | "returned" for a direct call
    opened,     \* whether the run called open() on glyphs.txt
    stdout,     \* lines printed to standard output
    stderr,     \* lines printed to standard error
    exitCode,   \* <<>> while running, <<n>> once the process has exited with n
    call,       \* direct call of a routine: its name and arguments
    ret         \* the value that call returned

vars == <<cmd, query, fileExists, fileText, isatty, pc, opened, stdout, stderr, exitCode, call, ret>>

-----------------------------------------------------------------------------
\* Bounds of the model

\* glyphs.txt holds at most this many characters, newlines included
MaxFileLen == 4
\* at most this many positional arguments after "search"
MaxArgs == 2
\* each of them has at most this many characters
MaxArgLen == 1
\* lines handed directly to find_all_occurrences: how many, and how long
MaxCallLines == 2
MaxCallLineLen == 2
\* lines handed directly to make_snippet are at most this long
MaxSnippetLine == 13

NL == "\n"
Chars == {"a", "b"}

StrUpTo(S, n) == UNION {[1..k -> S] : k \in 0..n}

Min(a, b) == IF a < b THEN a ELSE b
Max(a, b) == IF a > b THEN a ELSE b
SetMin(S) == CHOOSE x \in S : \A y \in S : x <= y

RECURSIVE Concat(_)
\* ''.join(parts)
Concat(parts) == IF parts = <<>> THEN <<>> ELSE Head(parts) \o Concat(Tail(parts))

-----------------------------------------------------------------------------
\* Python built-ins the program uses

\* s[a:b] for 0 <= a
Slice(s, a, b) == SubSeq(s, a + 1, Min(b, Len(s)))

RECURSIVE rstrip(_)
\* s.rstrip('\n'): every trailing newline goes
rstrip(s) ==
    IF s # <<>> /\ s[Len(s)] = NL THEN rstrip(SubSeq(s, 1, Len(s) - 1)) ELSE s

RECURSIVE readlines(_)
\* f.readlines(): cut after each newline, the newline kept
readlines(text) ==
    IF text = <<>> THEN <<>>
    ELSE LET nls == {k \in 1..Len(text) : text[k] = NL}
         IN  IF nls = {} THEN <<text>>
             ELSE <<SubSeq(text, 1, SetMin(nls))>>
                  \o readlines(SubSeq(text, SetMin(nls) + 1, Len(text)))

\* line.find(sub, start + 1): a search that starts one offset too far
StrFindSkipFirst(line, sub, start) ==
    LET hits == {i \in (start + 1)..(Len(line) - Len(sub)) :
                    SubSeq(line, i + 1, i + Len(sub)) = sub}
    IN  IF hits = {} THEN -1 ELSE SetMin(hits)

\* line.find(sub, start): the lowest 0-based index >= start where sub begins, or -1
StrFind(line, sub, start) ==
    LET hits == {i \in start..(Len(line) - Len(sub)) :
                    SubSeq(line, i + 1, i + Len(sub)) = sub}
    IN  IF hits = {} THEN -1 ELSE SetMin(hits)

Digit == <<"0", "1", "2", "3", "4", "5", "6", "7", "8", "9">>

RECURSIVE IntToStr(_)
\* {n} in an f-string, n >= 0
IntToStr(n) ==
    IF n < 10 THEN <<Digit[n + 1]>>
    ELSE IntToStr(n \div 10) \o <<Digit[(n % 10) + 1]>>

\* Counter(s).items(): (character, count) pairs in order of first insertion
CounterAdd(items, ch) ==
    IF \E k \in DOMAIN items : items[k][1] = ch
    THEN [k \in DOMAIN items |->
            IF items[k][1] = ch THEN <<ch, items[k][2] + 1>> ELSE items[k]]
    ELSE Append(items, <<ch, 1>>)

RECURSIVE Counter(_)
Counter(s) ==
    IF s = <<>> THEN <<>>
    ELSE CounterAdd(Counter(SubSeq(s, 1, Len(s) - 1)), s[Len(s)])

\* counts[ch]
CounterGet(items, ch) ==
    IF \E k \in DOMAIN items : items[k][1] = ch
    THEN items[CHOOSE k \in DOMAIN items : items[k][1] = ch][2]
    ELSE 0

\* sorted(set(s)) instead: the keys by code point
CodePoints == <<NL>> \o Digit \o <<"A", "B", "C", "D", "E", "F", "a", "b">>
CodePoint(c) == CHOOSE i \in DOMAIN CodePoints : CodePoints[i] = c
FromKeysSorted(s) ==
    LET keys == {s[k] : k \in DOMAIN s}
    IN  [n \in 1..Cardinality(keys) |->
            CHOOSE c \in keys :
                Cardinality({d \in keys : CodePoint(d) <= CodePoint(c)}) = n]

RECURSIVE FromKeys(_)
\* list(OrderedDict.fromkeys(s)): the keys in order of first insertion
FromKeys(s) ==
    IF s = <<>> THEN <<>>
    ELSE LET keys == FromKeys(SubSeq(s, 1, Len(s) - 1))
         IN  IF \E k \in DOMAIN keys : keys[k] = s[Len(s)]
             THEN keys ELSE Append(keys, s[Len(s)])

\* list.sort(key=...): stable, ascending; key maps each element to its sort key
SortInsert(sorted, x, key) ==
    LET n == Cardinality({k \in DOMAIN sorted : key[sorted[k]] <= key[x]})
    IN  SubSeq(sorted, 1, n) \o <<x>> \o SubSeq(sorted, n + 1, Len(sorted))

RECURSIVE SortBy(_, _)
SortBy(s, key) ==
    IF s = <<>> THEN <<>>
    ELSE SortInsert(SortBy(SubSeq(s, 1, Len(s) - 1), key), s[Len(s)], key)

-----------------------------------------------------------------------------
\* Module level

GREEN == IF isatty THEN <<"ESC[32m">> ELSE <<>>
GREY == IF isatty THEN <<"ESC[90m">> ELSE <<>>
RESET == IF isatty THEN <<"ESC[0m">> ELSE <<>>
YELLOW == IF isatty THEN <<"ESC[33m">> ELSE <<>>

GLYPH_FILE == <<"glyphs.txt">>

\* line[pos] with pos past the end raises; the value stands for the exception
IndexError == <<"IndexError: string index out of range">>

\* load_lines: the lines, or the message and sys.exit(2)
load_lines ==
    IF fileExists
    THEN [ok |-> TRUE, lines |-> readlines(fileText), stderr |-> <<>>]
    ELSE [ok |-> FALSE, lines |-> <<>>,
          stderr |-> <<(<<"File not found: ">> \o GLYPH_FILE)>>]

RECURSIVE FindInLine(_, _, _, _)
\* the while loop of find_all_occurrences on line i, from offset start
FindInLine(i, line, ch, start) ==
    LET idx == StrFind(line, ch, start)
    IN  IF idx = -1 THEN <<>>
        ELSE <<(<<i, idx + 1, line, idx>>)>> \o FindInLine(i, line, ch, idx + 1)

RECURSIVE FindFromLine(_, _, _)
\* the for loop of find_all_occurrences from line i on
FindFromLine(lines, ch, i) ==
    IF i > Len(lines) THEN <<>>
    ELSE FindInLine(i, rstrip(lines[i]), ch, 0) \o FindFromLine(lines, ch, i + 1)

find_all_occurrences(lines, ch) == FindFromLine(lines, ch, 1)

\* make_snippet without its suffix
SnippetNoSuffix(line, pos) ==
    LET before == Max(0, pos - 5)
        after == Min(Len(line), pos + 1 + 5)
        prefix == IF before > 0 THEN GREY \o <<"...">> \o RESET ELSE <<>>
    IN  IF pos >= Len(line) THEN IndexError
        ELSE prefix \o Slice(line, before, pos) \o YELLOW \o <<" ", line[pos + 1], " ">>
             \o RESET \o Slice(line, pos + 1, after)

\* make_snippet: the rendered string, or IndexError when line[pos] raises
make_snippet(line, pos) ==
    LET before == Max(0, pos - 5)
        after == Min(Len(line), pos + 1 + 5)
        prefix == IF before > 0 THEN GREY \o <<"...">> \o RESET ELSE <<>>
        suffix == IF after < Len(line) THEN GREY \o <<"...">> \o RESET ELSE <<>>
        left == Slice(line, before, pos)
        right == Slice(line, pos + 1, after)
    IN  IF pos >= Len(line) THEN IndexError
        ELSE prefix \o left \o YELLOW \o <<" ", line[pos + 1], " ">> \o RESET
             \o right \o suffix

\* the two print calls of one occurrence: the location, then the snippet
PrintOcc(o) ==
    << <<"Line ">> \o IntToStr(o[1]) \o <<" Column ">> \o IntToStr(o[2]) \o <<":">>,
       make_snippet(o[3], o[4]) >>

RECURSIVE PrintOccs(_)
PrintOccs(occs) ==
    IF occs = <<>> THEN <<>> ELSE PrintOcc(Head(occs)) \o PrintOccs(Tail(occs))

\* What a handler's print calls leave behind: the lines before the first call
\* that raised, the traceback and exit code 1 if one did, exit code 0 if none.
Raised(prints) == \E k \in DOMAIN prints : prints[k] = IndexError
Finish(prints) ==
    IF Raised(prints)
    THEN [stdout |-> SubSeq(prints, 1,
                        SetMin({k \in DOMAIN prints : prints[k] = IndexError}) - 1),
          stderr |-> <<(<<"Traceback (most recent call last):">>), IndexError>>,
          exit |-> 1, opened |-> TRUE]
    ELSE [stdout |-> prints, stderr |-> <<>>, exit |-> 0, opened |-> TRUE]

\* first_index without its "not in" test: the last index of each character
FirstIndexLast(flattened) ==
    [ch \in {flattened[k] : k \in DOMAIN flattened} |->
        CHOOSE i \in 0..(Len(flattened) - 1) :
            /\ flattened[i + 1] = ch
            /\ \A j \in (i + 1)..(Len(flattened) - 1) : flattened[j + 1] # ch]

RECURSIVE FirstIndex(_)
\* first_index of cmd_scan
FirstIndex(flattened) ==
    IF flattened = <<>> THEN <<>>
    ELSE LET first_index == FirstIndex(SubSeq(flattened, 1, Len(flattened) - 1))
             ch == flattened[Len(flattened)]
         IN  IF ch \in DOMAIN first_index THEN first_index
             ELSE first_index @@ (ch :> (Len(flattened) - 1))

\* flattened without the rstrip
FlattenKeepNewlines(lines) == Concat(lines)

\* flattened of cmd_scan
Flatten(lines) == Concat([k \in DOMAIN lines |-> rstrip(lines[k])])

\* duplicates with c > 0 for c > 1
DuplicatesAtLeastOnce(counts) ==
    LET dup == SelectSeq(counts, LAMBDA item : item[2] > 0)
    IN  [k \in DOMAIN dup |-> dup[k][1]]

\* duplicates of cmd_scan, before the sort
Duplicates(counts) ==
    LET dup == SelectSeq(counts, LAMBDA item : item[2] > 1)
    IN  [k \in DOMAIN dup |-> dup[k][1]]

\* one turn of the for loop of cmd_scan
ScanReport(lines, counts, ch) ==
    LET total == CounterGet(counts, ch)
    IN  IF total > 0
        THEN <<(GREEN \o <<"[SCAN]">> \o RESET \o <<" Duplication found: '", ch, "' [">>
                \o IntToStr(total) \o <<" times]">>)>>
             \o PrintOccs(find_all_occurrences(lines, <<ch>>))
        ELSE <<>>

cmd_scan ==
    LET ld == load_lines
        lines == ld.lines
        flattened == Flatten(lines)
        counts == Counter(flattened)
        duplicates == Duplicates(counts)
        first_index == FirstIndex(flattened)
        key == [c \in {duplicates[k] : k \in DOMAIN duplicates} |->
                    IF c \in DOMAIN first_index THEN first_index[c] ELSE 0]
        sorted == SortBy(duplicates, key)
    IN  IF ~ld.ok
        THEN [stdout |-> <<>>, stderr |-> ld.stderr, exit |-> 2, opened |-> TRUE]
        ELSE IF duplicates = <<>>
        THEN Finish(<<(GREEN \o <<"[SCAN]">> \o RESET \o <<" No duplication found.">>)>>)
        ELSE Finish(Concat([k \in DOMAIN sorted |-> ScanReport(lines, counts, sorted[k])]))

\* chars as list(joined): no de-duplication
SearchCharsNoDedup(joined) ==
    IF Len(joined) > 1 THEN [k \in DOMAIN joined |-> <<joined[k]>>] ELSE <<joined>>

\* chars of cmd_search
SearchChars(joined) ==
    IF Len(joined) > 1
    THEN LET keys == FromKeys(joined) IN [k \in DOMAIN keys |-> <<keys[k]>>]
    ELSE <<joined>>

\* one turn of the loop that prints nothing for a character not found
SearchReportNoNone(lines, ch) ==
    LET occs == find_all_occurrences(lines, ch)
        total == Len(occs)
    IN  IF total = 0 THEN <<>>
        ELSE <<(GREEN \o <<"[SEARCH]">> \o RESET \o <<" Search result of '">> \o ch
                \o <<"': [">> \o IntToStr(total) \o <<" ">>
                \o <<(IF total = 1 THEN "time" ELSE "times")>> \o <<"]">>)>>
             \o PrintOccs(occs)

\* one turn of the for loop of cmd_search
SearchReport(lines, ch) ==
    LET occs == find_all_occurrences(lines, ch)
        total == Len(occs)
    IN  IF total = 0
        THEN <<(GREEN \o <<"[SEARCH]">> \o RESET \o <<" Search result of '">> \o ch
                \o <<"': None">>)>>
        ELSE <<(GREEN \o <<"[SEARCH]">> \o RESET \o <<" Search result of '">> \o ch
                \o <<"': [">> \o IntToStr(total) \o <<" ">>
                \o <<(IF total = 1 THEN "time" ELSE "times")>> \o <<"]">>)>>
             \o PrintOccs(occs)

cmd_search(args_query) ==
    LET joined == Concat(args_query)
        chars == SearchChars(joined)
        ld == load_lines
    IN  IF args_query = <<>>
        THEN [stdout |-> <<>>, stderr |-> <<(<<"Please provide search character(s).">>)>>,
              exit |-> 2, opened |-> FALSE]
        ELSE IF ~ld.ok
        THEN [stdout |-> <<>>, stderr |-> ld.stderr, exit |-> 2, opened |-> TRUE]
        ELSE Finish(Concat([k \in DOMAIN chars |-> SearchReport(ld.lines, chars[k])]))

-----------------------------------------------------------------------------
\* A run of the program: main() from the command line to the exit

NoCall == <<>>

Queries == StrUpTo(StrUpTo(Chars, MaxArgLen), MaxArgs)
FileTexts == StrUpTo(Chars \cup {NL}, MaxFileLen)

Init ==
    /\ cmd \in {"none", "scan", "search"}
    /\ query \in IF cmd = "search" THEN Queries ELSE {<<>>}
    /\ fileExists \in BOOLEAN
    /\ fileText \in IF fileExists THEN FileTexts ELSE {<<>>}
    /\ isatty \in BOOLEAN
    /\ pc = "start"
    /\ opened = FALSE
    /\ stdout = <<>>
    /\ stderr = <<>>
    /\ exitCode = <<>>
    /\ call = NoCall
    /\ ret = NoCall

Exit(r) ==
    /\ pc' = "exit"
    /\ stdout' = r.stdout
    /\ stderr' = r.stderr
    /\ exitCode' = <<r.exit>>
    /\ opened' = r.opened
    /\ UNCHANGED <<cmd, query, fileExists, fileText, isatty, call, ret>>

\* main: no subcommand
MainUsage ==
    /\ pc = "start"
    /\ cmd = "none"
    /\ Exit([stdout |-> <<(<<"usage: check.py [-h] {scan,search} ...">>)>>,
             stderr |-> <<>>, exit |-> 1, opened |-> FALSE])

\* main: parse_args rejects "search" without a positional argument (nargs='+')
MainSearchNoArgument ==
    /\ pc = "start"
    /\ cmd = "search"
    /\ query = <<>>
    /\ Exit([stdout |-> <<>>,
             stderr |-> <<(<<"usage: check.py search [-h] query [query ...]">>),
                          (<<"check.py search: error: the following arguments are required: query">>)>>,
             exit |-> 2, opened |-> FALSE])

\* main: scan
MainScan ==
    /\ pc = "start"
    /\ cmd = "scan"
    /\ Exit(cmd_scan)

\* main: search with its arguments
MainSearch ==
    /\ pc = "start"
    /\ cmd = "search"
    /\ query # <<>>
    /\ Exit(cmd_search(query))

Next == MainUsage \/ MainSearchNoArgument \/ MainScan \/ MainSearch

Spec == Init /\ [][Next]_vars

-----------------------------------------------------------------------------
\* Direct calls of the two shared routines (check.py imported, main() not run)

Lib ==
    /\ cmd = "none"
    /\ query = <<>>
    /\ fileExists = FALSE
    /\ fileText = <<>>
    /\ pc = "lib"
    /\ opened = FALSE
    /\ stdout = <<>>
    /\ stderr = <<>>
    /\ exitCode = <<>>
    /\ ret = NoCall

Return(value) ==
    /\ pc' = "returned"
    /\ ret' = value
    /\ UNCHANGED <<cmd, query, fileExists, fileText, isatty, opened, stdout, stderr,
                   exitCode, call>>

\* any list of strings, newlines anywhere in them
CallLines == StrUpTo(StrUpTo(Chars \cup {NL}, MaxCallLineLen), MaxCallLines)
\* the one-character targets, and the empty target cmd_search can pass
CallTargets == StrUpTo(Chars \cup {NL}, 1)

InitFind ==
    /\ Lib
    /\ isatty = FALSE
    /\ call \in [lines : CallLines, ch : CallTargets]

CallFind ==
    /\ pc = "lib"
    /\ Return(find_all_occurrences(call.lines, call.ch))

SpecFind == InitFind /\ [][CallFind]_vars

\* lines whose characters tell their offsets apart: the n characters that
\* follow offset s of 0123456789ABCDEF0123...
HexDigit == Digit \o <<"A", "B", "C", "D", "E", "F">>
Window(s, n) == [k \in 1..n |-> HexDigit[((s + k - 1) % Len(HexDigit)) + 1]]
SnippetLines == {Window(s, n) : s \in 0..MaxSnippetLine, n \in 0..MaxSnippetLine}

InitSnippet ==
    /\ Lib
    /\ isatty \in BOOLEAN
    /\ \E line \in SnippetLines : call \in [line : {line}, pos : 0..Len(line)]

CallSnippet ==
    /\ pc = "lib"
    /\ Return(make_snippet(call.line, call.pos))

SpecSnippet == InitSnippet /\ [][CallSnippet]_vars

-----------------------------------------------------------------------------
\* Reading the output back

ColorTokens == {"ESC[32m", "ESC[90m", "ESC[0m", "ESC[33m"}
\* a printed line without its colour codes
Plain(l) == SelectSeq(l, LAMBDA t : t \notin ColorTokens)
PlainOut == [k \in DOMAIN stdout |-> Plain(stdout[k])]

SetMax(S) == CHOOSE x \in S : \A y \in S : y <= x
NthSmallest(S, n) == CHOOSE x \in S : Cardinality({y \in S : y <= x}) = n

RECURSIVE StrToInt(_)
StrToInt(ds) ==
    IF ds = <<>> THEN 0
    ELSE 10 * StrToInt(SubSeq(ds, 1, Len(ds) - 1))
         + (CHOOSE v \in 0..9 : Digit[v + 1] = ds[Len(ds)])

\* the shapes of a plain line
IsScanNotice(l) == l = <<"[SCAN]", " No duplication found.">>
IsScanHeader(l) == Len(l) >= 6 /\ l[1] = "[SCAN]" /\ l[2] = " Duplication found: '"
ScanHeaderChar(l) == l[3]
ScanHeaderTotal(l) == StrToInt(SubSeq(l, 5, Len(l) - 1))

IsSearchHeader(l) == Len(l) >= 3 /\ l[1] = "[SEARCH]" /\ l[2] = " Search result of '"
IsNoneHeader(l) == IsSearchHeader(l) /\ l[Len(l)] = "': None"
SearchHeaderMark(l) == CHOOSE k \in 3..Len(l) : l[k] \in {"': None", "': ["}
SearchHeaderStr(l) == SubSeq(l, 3, SearchHeaderMark(l) - 1)
SearchHeaderTotal(l) == StrToInt(SubSeq(l, SearchHeaderMark(l) + 1, Len(l) - 3))
SearchHeaderWord(l) == l[Len(l) - 1]

IsHeader(l) == IsScanHeader(l) \/ IsSearchHeader(l) \/ IsScanNotice(l)
IsLoc(l) == Len(l) >= 5 /\ l[1] = "Line " /\ l[Len(l)] = ":"
LocMark(l) == CHOOSE k \in DOMAIN l : l[k] = " Column "
LocLn(l) == StrToInt(SubSeq(l, 2, LocMark(l) - 1))
LocCol(l) == StrToInt(SubSeq(l, LocMark(l) + 1, Len(l) - 1))
IsSnippet(l) ==
    /\ ~IsHeader(l) /\ ~IsLoc(l) /\ l # IndexError
    /\ \E k \in DOMAIN l : k + 2 <= Len(l) /\ l[k] = " " /\ l[k + 2] = " "

\* the lines printed under the header at index k: up to the next header
Block(out, k) ==
    LET later == {j \in (k + 1)..Len(out) : IsHeader(out[j])}
    IN  SubSeq(out, k + 1, IF later = {} THEN Len(out) ELSE SetMin(later) - 1)

\* The file re-scanned naively, straight from its text
FlatText == SelectSeq(fileText, LAMBDA t : t # NL)
CountIn(s, c) == Cardinality({k \in DOMAIN s : s[k] = c})
FirstAppearance(s, c) == SetMin({k \in DOMAIN s : s[k] = c})
PositionsOf(c) == {p \in DOMAIN fileText : fileText[p] = c}
LineOf(p) == 1 + Cardinality({j \in 1..(p - 1) : fileText[j] = NL})
ColOf(p) == p - SetMax({0} \cup {j \in 1..(p - 1) : fileText[j] = NL})
NoDuplicate == \A c \in Chars : CountIn(fileText, c) <= 1

Joined == Concat(query)
\* a string without its later repeats
FirstSeen(s) ==
    LET firsts == {k \in DOMAIN s : \A j \in 1..(k - 1) : s[j] # s[k]}
    IN  [n \in 1..Cardinality(firsts) |-> s[NthSmallest(firsts, n)]]

ScanDone == pc = "exit" /\ cmd = "scan"
SearchDone == pc = "exit" /\ cmd = "search" /\ query # <<>>

-----------------------------------------------------------------------------
\* Claims

\* a line without its trailing newlines
Stripped(l) == SubSeq(l, 1, SetMax({0} \cup {k \in DOMAIN l : l[k] # NL}))
NaivePositions(lines, c) ==
    UNION {{<<i, o>> : o \in {o \in 0..(Len(Stripped(lines[i])) - 1) :
                                Stripped(lines[i])[o + 1] = c}} : i \in DOMAIN lines}

\* C1: for every line sequence and one-character target, find_all_occurrences
\* returns one Occurrence (line number from 1, column = offset + 1, the line
\* without its trailing newline, the offset) for every position a naive
\* re-scan finds, none missing or repeated, ordered by line and then offset;
\* it returns the empty sequence when the target occurs nowhere.
C1_FindMatchesNaiveRescan ==
    (pc = "returned" /\ Len(call.ch) = 1) =>
        LET P == NaivePositions(call.lines, call.ch[1])
        IN  /\ \A k \in DOMAIN ret :
                /\ <<ret[k][1], ret[k][4]>> \in P
                /\ ret[k][2] = ret[k][4] + 1
                /\ ret[k][3] = Stripped(call.lines[ret[k][1]])
            /\ \A p \in P : Cardinality({k \in DOMAIN ret : <<ret[k][1], ret[k][4]>> = p}) = 1
            /\ \A k, l \in DOMAIN ret :
                k < l => \/ ret[k][1] < ret[l][1]
                         \/ ret[k][1] = ret[l][1] /\ ret[k][4] < ret[l][4]
            /\ (P = {} => ret = <<>>)

\* two occurrences in one line followed by one in a later line
C1_Witness ==
    /\ pc = "returned" /\ Len(call.ch) = 1
    /\ Len(ret) >= 3
    /\ ret[1][1] = ret[2][1]
    /\ ret[3][1] > ret[1][1]

\* C2: scan prints a "Duplication found" header for a character iff its count
\* in the flattened content exceeds 1, one header per such character, the
\* headers ordered by the characters' first appearance in the flattened content.
C2_ScanHeadersAreTheDuplicatesInFirstSeenOrder ==
    ScanDone =>
        LET headers == SelectSeq(PlainOut, IsScanHeader)
            reported == [k \in DOMAIN headers |-> ScanHeaderChar(headers[k])]
            flat == FlatText
        IN  /\ \A c \in Chars \cup {NL} \cup {reported[k] : k \in DOMAIN reported} :
                (CountIn(flat, c) > 1) <=> (\E k \in DOMAIN reported : reported[k] = c)
            /\ \A k, l \in DOMAIN reported : k # l => reported[k] # reported[l]
            /\ \A k, l \in DOMAIN reported :
                k < l => FirstAppearance(flat, reported[k]) < FirstAppearance(flat, reported[l])

\* two duplicates reported against code point order: "b" first appeared first
C2_Witness ==
    /\ ScanDone
    /\ Len(SelectSeq(PlainOut, IsScanHeader)) = 2
    /\ ScanHeaderChar(SelectSeq(PlainOut, IsScanHeader)[1]) = "b"
    /\ ScanHeaderChar(SelectSeq(PlainOut, IsScanHeader)[2]) = "a"

IsMissingQueryError(err) ==
    /\ err # <<>>
    /\ \/ err[Len(err)] = <<"Please provide search character(s).">>
       \/ err[Len(err)] = <<"check.py search: error: the following arguments are required: query">>

\* C3: a search whose query arguments hold no character at all (none given, or
\* all empty) ends in the MissingQuery error: a message on standard error,
\* exit code 2, nothing on standard output.
C3_NoQueryCharacterIsMissingQuery ==
    (pc = "exit" /\ cmd = "search" /\ Joined = <<>>) =>
        /\ exitCode = <<2>>
        /\ IsMissingQueryError(stderr)
        /\ stdout = <<>>

\* C4: when the concatenated query has more than one character, search reports
\* each distinct character of the query exactly once, in the order of first
\* appearance in the query, and no other character.
C4_SearchReportsDistinctCharsInFirstSeenOrder ==
    (SearchDone /\ fileExists /\ Len(Joined) > 1) =>
        LET joined == Joined
            headers == SelectSeq(PlainOut, IsSearchHeader)
            reported == [k \in DOMAIN headers |-> SearchHeaderStr(headers[k])]
        IN  /\ \A k \in DOMAIN reported :
                /\ Len(reported[k]) = 1
                /\ \E i \in DOMAIN joined : joined[i] = reported[k][1]
            /\ \A i \in DOMAIN joined :
                Cardinality({k \in DOMAIN reported : reported[k] = <<joined[i]>>}) = 1
            /\ \A k, l \in DOMAIN reported :
                k < l => FirstAppearance(joined, reported[k][1])
                         < FirstAppearance(joined, reported[l][1])

\* the query "ba": "b" reported before "a"
C4_Witness ==
    /\ SearchDone /\ fileExists /\ Len(Joined) > 1
    /\ Len(SelectSeq(PlainOut, IsSearchHeader)) = 2
    /\ SearchHeaderStr(SelectSeq(PlainOut, IsSearchHeader)[1]) = <<"b">>
    /\ SearchHeaderStr(SelectSeq(PlainOut, IsSearchHeader)[2]) = <<"a">>

\* C5: a query that repeats one character gives the output of the query with
\* that single character; more generally a query gives the output of any query
\* with the same de-duplicated character sequence (here: of that sequence
\* given as one argument).
C5_RepeatedQueryEqualsDeduplicatedQuery ==
    (SearchDone /\ (Len(query) > 1 \/ Len(Joined) > 1)) =>
        LET joined == Joined
            other == cmd_search(<<FirstSeen(joined)>>)
        IN  /\ stdout = other.stdout
            /\ stderr = other.stderr
            /\ exitCode = <<other.exit>>
            /\ \A c \in Chars :
                (Len(joined) >= 2 /\ \A i \in DOMAIN joined : joined[i] = c) =>
                    other = cmd_search(<< <<c>> >>)

\* "a" given twice, over a file that holds "a"
C5_Witness ==
    /\ SearchDone /\ fileExists
    /\ query = << <<"a">>, <<"a">> >>
    /\ CountIn(fileText, "a") >= 1
    /\ Len(stdout) >= 3

Ellipsis == <<"...">>

\* C6: for 0 <= pos < len(line), make_snippet yields a leading ellipsis iff
\* pos > 5, the min(5, pos) characters before pos, the character at pos with a
\* marker on each side, the min(5, len - pos - 1) characters after pos, and a
\* trailing ellipsis iff pos + 6 < len; "0123456789A" at offset 10 gives the
\* leading ellipsis, "56789", the target, no right context, no trailing ellipsis.
C6_SnippetWindow ==
    (pc = "returned" /\ call.pos < Len(call.line)) =>
        LET line == call.line
            pos == call.pos
            nleft == Min(5, pos)
            nright == Min(5, Len(line) - pos - 1)
        IN  /\ Plain(ret) =
                (IF pos > 5 THEN Ellipsis ELSE <<>>)
                \o [k \in 1..nleft |-> line[pos - nleft + k]]
                \o <<" ", line[pos + 1], " ">>
                \o [k \in 1..nright |-> line[pos + 1 + k]]
                \o (IF pos + 6 < Len(line) THEN Ellipsis ELSE <<>>)
            /\ (line = <<"0", "1", "2", "3", "4", "5", "6", "7", "8", "9", "A">> /\ pos = 10)
                => Plain(ret) = <<"...", "5", "6", "7", "8", "9", " ", "A", " ">>

\* a position with more than five characters on either side: both ellipses
C6_Witness ==
    /\ pc = "returned"
    /\ call.pos > 5
    /\ call.pos + 6 < Len(call.line)
    /\ Plain(ret)[1] = "..."
    /\ Plain(ret)[Len(Plain(ret))] = "..."

\* C7: every invocation ends with the exit code of its outcome: 1 without a
\* subcommand (usage printed, file not opened); 2 when the glyph file is
\* missing for scan or search (message on standard error, no report line on
\* standard output) or when search has no query, the query check coming before
\* the file read; 0 when scan or search completes.
C7_ExitCodeByOutcome ==
    pc = "exit" =>
        /\ cmd = "none" => exitCode = <<1>> /\ ~opened /\ stdout # <<>>
        /\ (cmd = "search" /\ query = <<>>) =>
            exitCode = <<2>> /\ ~opened /\ IsMissingQueryError(stderr)
        /\ (cmd = "scan" \/ (cmd = "search" /\ query # <<>>)) =>
            IF fileExists
            THEN exitCode = <<0>>
            ELSE exitCode = <<2>> /\ stderr # <<>> /\ stdout = <<>>

\* C8: for every character searched there is exactly one header: "None" and
\* nothing under it when the character occurs nowhere; otherwise the number of
\* occurrences, worded "time" for 1 and "times" for more, and under it that
\* many location-plus-snippet entries in the order of the occurrences. A
\* character without occurrences neither goes unreported nor ends the search.
C8_SearchHeaderAndEntriesPerCharacter ==
    (SearchDone /\ fileExists) =>
        LET joined == Joined
            out == PlainOut
        IN  \A c \in {joined[i] : i \in DOMAIN joined} :
                LET at == {k \in DOMAIN out :
                            IsSearchHeader(out[k]) /\ SearchHeaderStr(out[k]) = <<c>>}
                    found == PositionsOf(c)
                    n == Cardinality(found)
                IN  /\ Cardinality(at) = 1
                    /\ \A k \in at :
                        LET block == Block(out, k)
                        IN  IF n = 0
                            THEN IsNoneHeader(out[k]) /\ block = <<>>
                            ELSE /\ ~IsNoneHeader(out[k])
                                 /\ SearchHeaderTotal(out[k]) = n
                                 /\ SearchHeaderWord(out[k]) = (IF n = 1 THEN "time" ELSE "times")
                                 /\ Len(block) = 2 * n
                                 /\ \A j \in 1..n :
                                    /\ IsLoc(block[2 * j - 1])
                                    /\ LocLn(block[2 * j - 1]) = LineOf(NthSmallest(found, j))
                                    /\ LocCol(block[2 * j - 1]) = ColOf(NthSmallest(found, j))
                                    /\ IsSnippet(block[2 * j])

\* a character reported "None", then another one found twice or more
C8_Witness ==
    /\ SearchDone /\ fileExists
    /\ Len(stdout) >= 6
    /\ IsNoneHeader(PlainOut[1])
    /\ IsSearchHeader(PlainOut[2])
    /\ SearchHeaderWord(PlainOut[2]) = "times"

\* C9: when no character occurs more than once in the flattened content (an
\* empty file and a file of empty lines included), scan prints the one "no
\* duplication" notice and nothing else, and exits with code 0.
C9_ScanWithoutDuplicates ==
    (ScanDone /\ fileExists /\ NoDuplicate) =>
        /\ Len(stdout) = 1
        /\ IsScanNotice(Plain(stdout[1]))
        /\ stderr = <<>>
        /\ exitCode = <<0>>

\* two different characters on two lines, no duplicate
C9_Witness ==
    /\ ScanDone /\ fileExists /\ NoDuplicate
    /\ Len(FlatText) = 2
    /\ Len(fileText) = 3
    /\ exitCode = <<0>>

\* C10: in a scan, the total in each duplicate's header equals the number of
\* location-plus-snippet entries printed under that header.
C10_ScanTotalEqualsEntries ==
    ScanDone =>
        LET out == PlainOut
        IN  \A k \in DOMAIN out :
                IsScanHeader(out[k]) =>
                    LET block == Block(out, k)
                    IN  /\ Len(block) = 2 * ScanHeaderTotal(out[k])
                        /\ \A j \in DOMAIN block :
                            IF j % 2 = 1 THEN IsLoc(block[j]) ELSE IsSnippet(block[j])

\* a character reported three times, over more than one line
C10_Witness ==
    /\ ScanDone
    /\ Len(stdout) = 7
    /\ IsScanHeader(PlainOut[1])
    /\ ScanHeaderTotal(PlainOut[1]) = 3
    /\ LocLn(PlainOut[2]) # LocLn(PlainOut[6])

====
